---- MODULE Spec2Model ----
(***************************************************************************)
(* Model of the api_gateway service of the notification system:            *)
(*   - main.rs      : broker bootstrap (connect_with_retry,                *)
(*                    declare_topology), readiness flag, HTTP server       *)
(*   - status.rs    : StatusStore (reserve_idem, set_status, get_status)   *)
(*                    on a key-value store with key expiry                 *)
(*   - handlers.rs  : create_notification and the worker status callbacks  *)
(* Time is discrete.  The bootstrap clock (elapsed) counts seconds since   *)
(* connect_with_retry was entered; the store clock (now) counts ticks of   *)
(* the key-value store's expiry clock once the server is serving.          *)
(***************************************************************************)
EXTENDS Integers, Sequences, FiniteSets, TLC

\* ------------------------------------------------------------------------
\* Bounds of the model
\* ------------------------------------------------------------------------
\* Last tick of the store clock.
MaxTime == 3
\* A connection attempt takes 0..MaxAttemptSecs seconds.
MaxAttemptSecs == 1
\* IDEM_TTL_SECS and STATUS_TTL_SECS, in ticks of the store clock.
IdemTtl == 2
StatusTtl == 1

\* ------------------------------------------------------------------------
\* Program constants
\* ------------------------------------------------------------------------
\* connect_with_retry(&amqp_url, 60)
ConnectMaxSecs == 60
\* let mut delay = 1u64
InitialDelay == 1
\* delay = (delay * 2).min(10)
BackoffCap == 10
\* "max_attempts": 3
MaxAttempts == 3
\* the seven awaited steps of declare_topology
DeclSteps == 7

VARIABLES
    bootpc,       \* position of main
    connRes,      \* connect_with_retry: result of the last Connection::connect
    delay,        \* connect_with_retry: local delay
    elapsed,      \* connect_with_retry: seconds since the deadline was set
    retries,      \* connect_with_retry: sleeps taken so far
    slept,        \* connect_with_retry: length of the last sleep (0: none)
    channel,      \* main: whether conn.create_channel() returned a channel
    declared,     \* declare_topology: number of declaration steps completed
    amqp_ready,   \* main: the AtomicBool readiness flag
    readyStores,  \* number of amqp_ready.store(true) executed
    exchange_name,\* main: EXCHANGE_NAME, the exchange declare_topology declares
    now,          \* the key-value store's clock
    kv,           \* store: the keys of the one database, [val, exp] of each
    lastSet,      \* history: the last SET executed on each live status key and
                  \* the value it overwrote
    age,          \* history: ticks since each id was last Reserved (capped at IdemTtl)
    published,    \* broker: the messages basic_publish handed over successfully
    pc,           \* create_notification: position of each request task
    req,          \* create_notification: the request body of each task
    rsv,          \* create_notification: outcome of the task's reserve_idem; cur: the
                  \* call fell in a TTL window (a Reserved less than IdemTtl old)
                  \* that is still open
    loc,          \* create_notification: locals (user_data, template_json, msg)
    pub,          \* create_notification: publish_res of each task
    brk,          \* history: what the broker did with the task's message
    inflight,     \* create_notification: the task's basic_publish in progress,
                  \* the channel handle it uses and the delivery it sends
    st,           \* create_notification: the state passed to set_status
    wr,           \* create_notification: result of the task's set_status
    resp,         \* create_notification: the HTTP response of each task
    wpc,          \* update_status_impl: position of each callback
    wreq          \* update_status_impl: the callback's request

bootVars == <<bootpc, connRes, delay, elapsed, retries, slept, channel, declared,
             amqp_ready, readyStores, exchange_name>>
storeVars == <<now, kv, lastSet, age>>
taskVars == <<pc, req, rsv, loc, pub, brk, inflight, st, wr, resp>>
workerVars == <<wpc, wreq>>

vars == <<bootVars, storeVars, published, taskVars, workerVars>>

\* ------------------------------------------------------------------------
\* main.rs: bootstrap
\* ------------------------------------------------------------------------
Min(a, b) == IF a < b THEN a ELSE b

\* Mutant of NextDelay: the cap is missing.
NextDelay_NoCap(d) == d * 2

\* delay = (delay * 2).min(10)
NextDelay(d) == Min(d * 2, BackoffCap)

\* Err(e) if Instant::now() < deadline  (the retry guard; the deadline is
\* ConnectMaxSecs after connect_with_retry was entered)
BeforeDeadline(t) == t < ConnectMaxSecs

\* Connection::connect(amqp_url, ..).await : takes d seconds, succeeds or fails
ConnectAttempt ==
    /\ bootpc = "connecting"
    /\ \E ok \in BOOLEAN, d \in 0..MaxAttemptSecs :
         /\ connRes' = IF ok THEN "ok" ELSE "err"
         /\ elapsed' = elapsed + d
    /\ bootpc' = "connect_result"
    /\ UNCHANGED <<delay, retries, slept, channel, declared, amqp_ready, readyStores,
                   exchange_name, storeVars, published, taskVars, workerVars>>

\* Ok(conn) => return conn
ConnectOk ==
    /\ bootpc = "connect_result"
    /\ connRes = "ok"
    /\ bootpc' = "create_channel"
    /\ delay' = 0 /\ elapsed' = 0 /\ retries' = 0 /\ slept' = 0
    /\ UNCHANGED <<connRes, channel, declared, amqp_ready, readyStores,
                   exchange_name, storeVars, published, taskVars, workerVars>>

\* Mutant of ConnectRetry: the retry does not sleep, no time passes.
ConnectRetry_NoSleep ==
    /\ bootpc = "connect_result"
    /\ connRes = "err"
    /\ BeforeDeadline(elapsed)
    /\ slept' = 0
    /\ retries' = retries + 1
    /\ delay' = NextDelay(delay)
    /\ connRes' = "none"
    /\ bootpc' = "connecting"
    /\ UNCHANGED <<elapsed, channel, declared, amqp_ready, readyStores,
                   exchange_name, storeVars, published, taskVars, workerVars>>

\* Err(e) before the deadline: sleep(delay), then double the delay
ConnectRetry ==
    /\ bootpc = "connect_result"
    /\ connRes = "err"
    /\ BeforeDeadline(elapsed)
    /\ elapsed' = elapsed + delay
    /\ slept' = delay
    /\ retries' = retries + 1
    /\ delay' = NextDelay(delay)
    /\ connRes' = "none"
    /\ bootpc' = "connecting"
    /\ UNCHANGED <<channel, declared, amqp_ready, readyStores,
                   exchange_name, storeVars, published, taskVars, workerVars>>

\* Mutant of ConnectGiveUp: a failure past the deadline is treated as a connection.
ConnectGiveUp_Continue ==
    /\ bootpc = "connect_result"
    /\ connRes = "err"
    /\ ~BeforeDeadline(elapsed)
    /\ bootpc' = "create_channel"
    /\ UNCHANGED <<connRes, delay, elapsed, retries, slept, channel, declared, amqp_ready,
                   readyStores, exchange_name, storeVars, published, taskVars, workerVars>>

\* Err(e) at or after the deadline: panic!
ConnectGiveUp ==
    /\ bootpc = "connect_result"
    /\ connRes = "err"
    /\ ~BeforeDeadline(elapsed)
    /\ bootpc' = "connect_panic"
    /\ UNCHANGED <<connRes, delay, elapsed, retries, slept, channel, declared, amqp_ready,
                   readyStores, exchange_name, storeVars, published, taskVars, workerVars>>

\* conn.create_channel().await?  succeeds
CreateChannelOk ==
    /\ bootpc = "create_channel"
    /\ channel' = TRUE
    /\ bootpc' = "declaring"
    /\ UNCHANGED <<connRes, delay, elapsed, retries, slept, declared, amqp_ready, readyStores,
                   exchange_name, storeVars, published, taskVars, workerVars>>

\* conn.create_channel().await?  fails: main returns the error
CreateChannelFail ==
    /\ bootpc = "create_channel"
    /\ bootpc' = "failed"
    /\ UNCHANGED <<connRes, delay, elapsed, retries, slept, channel, declared, amqp_ready, readyStores,
                   exchange_name, storeVars, published, taskVars, workerVars>>

\* declare_topology: the next of exchange_declare, 3 x queue_declare,
\* 2 x queue_bind, basic_qos succeeds
DeclareStepOk ==
    /\ bootpc = "declaring"
    /\ declared < DeclSteps
    /\ declared' = declared + 1
    /\ UNCHANGED <<bootpc, connRes, delay, elapsed, retries, slept, channel, amqp_ready, readyStores,
                   exchange_name, storeVars, published, taskVars, workerVars>>

\* Mutant of DeclareStepFail: the error of the step is ignored.
DeclareStepFail_Ignored ==
    /\ bootpc = "declaring"
    /\ declared < DeclSteps
    /\ bootpc' = "starting"
    /\ UNCHANGED <<connRes, delay, elapsed, retries, slept, channel, declared, amqp_ready, readyStores,
                   exchange_name, storeVars, published, taskVars, workerVars>>

\* declare_topology: the next step fails (.await?), main returns the error
DeclareStepFail ==
    /\ bootpc = "declaring"
    /\ declared < DeclSteps
    /\ bootpc' = "failed"
    /\ UNCHANGED <<connRes, delay, elapsed, retries, slept, channel, declared, amqp_ready, readyStores,
                   exchange_name, storeVars, published, taskVars, workerVars>>

\* Mutant of MarkReady: the flag is set before declare_topology has finished.
MarkReady_Early ==
    /\ bootpc = "declaring"
    /\ amqp_ready' = TRUE
    /\ readyStores' = readyStores + 1
    /\ bootpc' = "starting"
    /\ UNCHANGED <<connRes, delay, elapsed, retries, slept, channel, declared,
                   exchange_name, storeVars, published, taskVars, workerVars>>

\* declare_topology returned Ok(()): amqp_ready.store(true, SeqCst)
MarkReady ==
    /\ bootpc = "declaring"
    /\ declared = DeclSteps
    /\ amqp_ready' = TRUE
    /\ readyStores' = readyStores + 1
    /\ bootpc' = "starting"
    /\ UNCHANGED <<connRes, delay, elapsed, retries, slept, channel, declared,
                   exchange_name, storeVars, published, taskVars, workerVars>>

\* StatusStore::new, HttpServer::new(..).bind(http_addr)?.run()
StartServerOk ==
    /\ bootpc = "starting"
    /\ bootpc' = "serving"
    /\ UNCHANGED <<connRes, delay, elapsed, retries, slept, channel, declared, amqp_ready, readyStores,
                   exchange_name, storeVars, published, taskVars, workerVars>>

\* create_pool(..).expect("redis pool") panics, or bind(http_addr)? fails
StartServerFail ==
    /\ bootpc = "starting"
    /\ \E how \in {"panicked", "failed"} : bootpc' = how
    /\ UNCHANGED <<connRes, delay, elapsed, retries, slept, channel, declared, amqp_ready, readyStores,
                   exchange_name, storeVars, published, taskVars, workerVars>>

\* GET /ready (main.rs): 200 when the flag is set, 503 otherwise
ReadyResponse == IF amqp_ready THEN 200 ELSE 503

\* The HTTP server routes requests only once run() was reached.
Serving == bootpc = "serving"

\* EXCHANGE_NAME: unset (the default "notifications.direct") or set otherwise.
ExchangeNames == {"notifications.direct", "custom.direct"}

\* declare_topology: step 1 declares the exchange, steps 2-4 the queues,
\* steps 5-6 the bindings (queue, exchange, routing key), step 7 the QoS.
DeclaredExchanges == IF declared >= 1 THEN {exchange_name} ELSE {}
DeclaredQueues ==
    {q \in {"email.queue", "push.queue", "failed.queue"} :
        \/ q = "email.queue" /\ declared >= 2
        \/ q = "push.queue" /\ declared >= 3
        \/ q = "failed.queue" /\ declared >= 4}
DeclaredBindings ==
    {b \in {[queue |-> "email.queue", exchange |-> exchange_name, key |-> "email", step |-> 5],
            [queue |-> "push.queue", exchange |-> exchange_name, key |-> "push", step |-> 6]} :
        declared >= b.step}

\* The queues a direct exchange routes a delivery to: those bound to the
\* delivery's exchange with a binding key equal to its routing key.
Route(d) ==
    {b.queue : b \in {b \in DeclaredBindings :
                          b.exchange = d.exchange /\ b.key = d.routing_key}}

\* ------------------------------------------------------------------------
\* status.rs: the key-value store and StatusStore
\* ------------------------------------------------------------------------
\* The concurrent request tasks of create_notification, and the worker that
\* calls the status callbacks.
Tasks == {1, 2}
Workers == {3}

Ids == {"r1", "r2"}
States == {"pending", "delivered", "failed"}

NoExpiry == -1
NoRecord == [val |-> "none", exp |-> 0]
NoSet == [by |-> 0, state |-> "none", over |-> "none"]

\* format!("idem:{}", req_id)
IdemKey(id) == <<"idem", id>>

\* Mutant of StatusKey: the status key has the prefix of the idem key.
StatusKey_IdemPrefix(id) == <<"idem", id>>

\* format!("status:{}", notification_id)
StatusKey(id) == <<"status", id>>
Keys == {IdemKey(i) : i \in Ids} \cup {StatusKey(i) : i \in Ids}

\* The two kinds of key as seen through their names: the expiry time of each
\* idem key (0: absent), and the [val, exp] of each status key.
idem == [i \in Ids |-> IF kv[IdemKey(i)] = NoRecord THEN 0 ELSE kv[IdemKey(i)].exp]
status == [i \in Ids |-> kv[StatusKey(i)]]

\* The record of an idem key with expiry time e, and a write of one key.
IdemRecord(e) == IF e = 0 THEN NoRecord ELSE [val |-> "1", exp |-> e]
Put(db, k, rec) == [db EXCEPT ![k] = rec]

\* An idem key is held while it has no expiry or its expiry time lies ahead.
IdemLive(db, id, t) == db[id] = NoExpiry \/ db[id] > t

\* Mutant of SetNxEx: the NX option is missing, the key is always written.
SetNxEx_NoNx(db, id, ttl, t) ==
    [created |-> TRUE, db |-> [db EXCEPT ![id] = t + ttl]]

\* Mutant of SetNxEx: the EX option is missing, the key never expires.
SetNxEx_NoEx(db, id, ttl, t) ==
    IF IdemLive(db, id, t)
    THEN [created |-> FALSE, db |-> db]
    ELSE [created |-> TRUE, db |-> [db EXCEPT ![id] = NoExpiry]]

\* SET idem:<id> "1" NX EX ttl : reply OK (true) or nil (false)
SetNxEx(db, id, ttl, t) ==
    IF IdemLive(db, id, t)
    THEN [created |-> FALSE, db |-> db]
    ELSE [created |-> TRUE, db |-> [db EXCEPT ![id] = t + ttl]]

\* reserve_idem: pool.get().await? fails -> Err; the SET command fails ->
\* unwrap_or(false) -> Ok(false); otherwise Ok(created)
ReserveIdem(db, id, ttl, t, outcome) ==
    CASE outcome = "pool_err" -> [result |-> "Err", db |-> db]
      [] outcome = "cmd_err"  -> [result |-> "Duplicate", db |-> db]
      [] OTHER ->
           LET r == SetNxEx(db, id, ttl, t)
           IN  [result |-> IF r.created THEN "Reserved" ELSE "Duplicate", db |-> r.db]

\* Mutant of SetCmd: a terminal state is not overwritten by pending.
SetCmd_KeepTerminal(db, id, state) ==
    IF state = "pending" /\ db[id].val \in {"delivered", "failed"}
    THEN [db EXCEPT ![id].exp = NoExpiry]
    ELSE [db EXCEPT ![id] = [val |-> state, exp |-> NoExpiry]]

\* SET status:<id> <state> : overwrites the value and clears the key's expiry
SetCmd(db, id, state) == [db EXCEPT ![id] = [val |-> state, exp |-> NoExpiry]]

\* EXPIRE status:<id> ttl : no effect on a missing key
ExpireCmd(db, id, ttl, t) ==
    IF db[id] = NoRecord THEN db ELSE [db EXCEPT ![id].exp = t + ttl]

\* get_status: GET status:<id>, the stored string (no timestamp is stored)
GetStatus(id) ==
    IF status[id] = NoRecord THEN [found |-> FALSE, state |-> "none", updated_at |-> -1]
    ELSE [found |-> TRUE, state |-> status[id].val, updated_at |-> -1]

\* The store's clock advances; keys whose expiry time is reached are removed.
Expired(e, t) == e.exp # NoExpiry /\ e.exp <= t

Tick ==
    /\ Serving
    /\ now < MaxTime
    /\ now' = now + 1
    /\ kv' = [k \in Keys |-> IF Expired(kv[k], now + 1) THEN NoRecord ELSE kv[k]]
    /\ lastSet' = [i \in Ids |-> IF Expired(status[i], now + 1) THEN NoSet ELSE lastSet[i]]
    /\ age' = [i \in Ids |-> Min(age[i] + 1, IdemTtl)]
    /\ rsv' = [r \in Tasks |->
                 IF rsv[r].cur /\ age[req[r].request_id] + 1 >= IdemTtl
                 THEN [rsv[r] EXCEPT !.cur = FALSE] ELSE rsv[r]]
    /\ UNCHANGED <<bootVars, published, pc, req, loc, pub, brk, inflight, st, wr, resp, workerVars>>

\* ------------------------------------------------------------------------
\* handlers.rs: create_notification
\* ------------------------------------------------------------------------
\* What the user service may answer (v["data"]), and the language in it.
UserDatas == {"user_en", "user_fr"}
Lang(user_data) == IF user_data = "user_fr" THEN "fr" ELSE "en"
\* What the template service answers for a template code and a language.
TemplateOf(code, lang) == <<code, lang>>

\* CreateNotificationRequest (models.rs); the fields the pipeline only copies
\* are the same in every request.
Request(rid, nt) ==
    [request_id |-> rid, notification_type |-> nt, user_id |-> "uid",
     template_code |-> "welcome", variables |-> "vars", priority |-> 1,
     metadata |-> "meta"]

\* The request bodies the callers send.
Requests == {Request("r1", "Email"), Request("r2", "Push")}

NoReq == [request_id |-> "none", notification_type |-> "none", user_id |-> "none",
          template_code |-> "none", variables |-> "none", priority |-> 0,
          metadata |-> "none"]
NoRsv == [result |-> "none", store |-> "none", cur |-> FALSE]
NoLoc == [user |-> "none", template |-> <<>>]
NoResp == [code |-> 0, success |-> FALSE, message |-> "none", error |-> "none",
           notification_id |-> "none"]

\* Envelope::ok(message, {notification_id}) / Envelope::err(code, message)
EnvelopeOk(code, message, id) ==
    [code |-> code, success |-> TRUE, message |-> message, error |-> "none",
     notification_id |-> id]
EnvelopeErr(code, error, message) ==
    [code |-> code, success |-> FALSE, message |-> message, error |-> error,
     notification_id |-> "none"]

\* match state.status.reserve_idem(..): the early returns of the guard
GuardResponse(result, rid) ==
    CASE result = "Duplicate" -> EnvelopeOk(202, "duplicate_request", rid)
      [] result = "Err"       -> EnvelopeErr(500, "idempotency_error", "redis_error")
      [] OTHER                -> NoResp

\* Mutant of GuardProceeds: a duplicate proceeds like a reservation.
GuardProceeds_Dup(result) == result # "Err"

\* Ok(true) => {} : only a reservation proceeds to the lookups and the publish
GuardProceeds(result) == result = "Reserved"

\* Mutant of RoutingKey: a default branch sends every type to "email".
RoutingKey_Default(nt) == "email"

\* let routing_key = match req.notification_type { Email => "email", Push => "push" }
RoutingKey(nt) ==
    CASE nt = "Email" -> "email"
      [] nt = "Push"  -> "push"

\* Uuid::new_v4(): a value no other call returns (the calling task and call site)
NewUuid(r, site) == <<r, site>>

\* let msg = json!({ .. })
Compose(rq, user_data, template_json, correlation_id, t) ==
    [request_id |-> rq.request_id,
     correlation_id |-> correlation_id,
     notification_type |-> RoutingKey(rq.notification_type),
     user_id |-> rq.user_id,
     user |-> user_data,
     template_code |-> rq.template_code,
     template |-> template_json,
     variables |-> rq.variables,
     priority |-> rq.priority,
     metadata |-> rq.metadata,
     attempt |-> 0,
     max_attempts |-> MaxAttempts,
     created_at |-> t]

\* basic_publish("notifications.direct", routing_key, {mandatory: true}, &payload, props)
Delivery(r, msg) ==
    [exchange |-> "notifications.direct",
     routing_key |-> msg.notification_type,
     mandatory |-> TRUE,
     payload |-> msg,
     correlation_id |-> msg.correlation_id,
     message_id |-> NewUuid(r, "message_id"),
     content_type |-> "application/json"]

\* Mutant of PublishStatus: the two states are swapped.
PublishStatus_Swapped(ok) == IF ok THEN "failed" ELSE "pending"

\* the state create_notification passes to set_status after the publish
PublishStatus(ok) == IF ok THEN "pending" ELSE "failed"

\* Mutant of PublishResponse: a publish failure is answered 500.
PublishResponse_WrongCode(ok, rid) ==
    IF ok THEN EnvelopeOk(202, "queued", rid)
    ELSE EnvelopeErr(500, "internal_error", "rabbitmq_error")

\* the response create_notification returns after the publish
PublishResponse(ok, rid) ==
    IF ok THEN EnvelopeOk(202, "queued", rid)
    ELSE EnvelopeErr(502, "queue_publish_failed", "rabbitmq_error")

\* body.into_inner(); state.status.reserve_idem(&req.request_id).await and its match
Reserve(r) ==
    /\ Serving
    /\ pc[r] = "idle"
    /\ \E rq \in Requests, outcome \in {"ok", "pool_err", "cmd_err"} :
         LET res == ReserveIdem(idem, rq.request_id, IdemTtl, now, outcome)
         IN  /\ req' = [req EXCEPT ![r] = rq]
             /\ kv' = IF res.result = "Reserved"
                      THEN Put(kv, IdemKey(rq.request_id), IdemRecord(res.db[rq.request_id]))
                      ELSE kv
             /\ age' = IF res.result = "Reserved" THEN [age EXCEPT ![rq.request_id] = 0] ELSE age
             /\ rsv' = [rsv EXCEPT ![r] = [result |-> res.result, store |-> outcome,
                                           cur |-> age'[rq.request_id] < IdemTtl]]
             /\ resp' = [resp EXCEPT ![r] = GuardResponse(res.result, rq.request_id)]
             /\ pc' = [pc EXCEPT ![r] = IF GuardProceeds(res.result) THEN "fetch_user" ELSE "done"]
    /\ UNCHANGED <<bootVars, now, lastSet, published, loc, pub, brk, inflight, st, wr, workerVars>>

\* client.get(&user_url): Ok(v) => v["data"]
FetchUserOk(r) ==
    /\ pc[r] = "fetch_user"
    /\ \E u \in UserDatas : loc' = [loc EXCEPT ![r].user = u]
    /\ pc' = [pc EXCEPT ![r] = "fetch_template"]
    /\ UNCHANGED <<bootVars, storeVars, published, req, rsv, pub, brk, inflight, st, wr, resp, workerVars>>

\* client.get(&user_url): any Err => 502 user_lookup_failed
FetchUserFail(r) ==
    /\ pc[r] = "fetch_user"
    /\ resp' = [resp EXCEPT ![r] = EnvelopeErr(502, "user_lookup_failed", "user_service_error")]
    /\ pc' = [pc EXCEPT ![r] = "done"]
    /\ UNCHANGED <<bootVars, storeVars, published, req, rsv, loc, pub, brk, inflight, st, wr, workerVars>>

\* client.get(&tpl_url) with lang from user_data["preferences"]: Ok(v) => v["data"]
FetchTemplateOk(r) ==
    /\ pc[r] = "fetch_template"
    /\ loc' = [loc EXCEPT ![r].template = TemplateOf(req[r].template_code, Lang(loc[r].user))]
    /\ pc' = [pc EXCEPT ![r] = "publish"]
    /\ UNCHANGED <<bootVars, storeVars, published, req, rsv, pub, brk, inflight, st, wr, resp, workerVars>>

\* client.get(&tpl_url): any Err => 502 template_lookup_failed
FetchTemplateFail(r) ==
    /\ pc[r] = "fetch_template"
    /\ resp' = [resp EXCEPT ![r] = EnvelopeErr(502, "template_lookup_failed", "template_service_error")]
    /\ loc' = [loc EXCEPT ![r] = NoLoc]
    /\ pc' = [pc EXCEPT ![r] = "done"]
    /\ UNCHANGED <<bootVars, storeVars, published, req, rsv, pub, brk, inflight, st, wr, workerVars>>

\* What becomes of a basic_publish: "ok" the frame is sent and the broker keeps
\* the message; "rejected" the frame is sent and the broker reports the
\* message back afterwards (basic.return under the mandatory flag, or
\* basic.nack); "err" the channel or connection fails the send.
PublishOutcomes == {"ok", "rejected", "err"}

\* publish_res: basic_publish(..).await resolves once the frame is sent; the
\* PublisherConfirm it yields is dropped without being awaited.
PublishRes(out) == IF out = "err" THEN "err" ELSE "ok"

\* state.amqp_channel: the one channel main created, shared by every task
\* through AppState.
ChannelHandle(r) == "amqp_channel"

\* assemble msg, serialize it, and call state.amqp_channel.basic_publish(..):
\* the publish is in progress until its future resolves
PublishSend(r) ==
    /\ pc[r] = "publish"
    /\ LET msg == Compose(req[r], loc[r].user, loc[r].template,
                          NewUuid(r, "correlation_id"), now)
       IN  inflight' = [inflight EXCEPT ![r] =
                           {[channel |-> ChannelHandle(r), delivery |-> Delivery(r, msg)]}]
    /\ loc' = [loc EXCEPT ![r] = NoLoc]
    /\ pc' = [pc EXCEPT ![r] = "publishing"]
    /\ UNCHANGED <<bootVars, storeVars, published, req, rsv, pub, brk, st, wr, resp, workerVars>>

\* Mutant of Publish: a failed publish is retried within the request.
Publish_Retry(r) ==
    /\ pc[r] = "publishing"
    /\ \E out \in PublishOutcomes :
         /\ published' = IF out = "ok"
                         THEN published \cup {x.delivery : x \in inflight[r]}
                         ELSE published
         /\ pub' = [pub EXCEPT ![r] = PublishRes(out)]
         /\ brk' = [brk EXCEPT ![r] = out]
         /\ st' = [st EXCEPT ![r] = PublishStatus(PublishRes(out) = "ok")]
         /\ inflight' = IF out = "err" THEN inflight ELSE [inflight EXCEPT ![r] = {}]
         /\ pc' = [pc EXCEPT ![r] = IF out = "err" THEN "publishing" ELSE "set_status"]
    /\ UNCHANGED <<bootVars, storeVars, req, rsv, loc, wr, resp, workerVars>>

\* basic_publish(..).await resolves, and the choice of the status to write
Publish(r) ==
    /\ pc[r] = "publishing"
    /\ \E out \in PublishOutcomes :
         /\ published' = IF out = "ok"
                         THEN published \cup {x.delivery : x \in inflight[r]}
                         ELSE published
         /\ pub' = [pub EXCEPT ![r] = PublishRes(out)]
         /\ brk' = [brk EXCEPT ![r] = out]
         /\ st' = [st EXCEPT ![r] = PublishStatus(PublishRes(out) = "ok")]
    /\ inflight' = [inflight EXCEPT ![r] = {}]
    /\ pc' = [pc EXCEPT ![r] = "set_status"]
    /\ UNCHANGED <<bootVars, storeVars, req, rsv, loc, wr, resp, workerVars>>

\* serde_json::to_vec(&msg).expect(..) on an Err: the handler panics, the
\* request's task ends without a response.  to_vec of a serde_json::Value
\* returns Ok, so this step is taken only under SerSpec, the specification
\* in which serialization may fail.
SerializePanic(r) ==
    /\ pc[r] = "publish"
    /\ loc' = [loc EXCEPT ![r] = NoLoc]
    /\ pc' = [pc EXCEPT ![r] = "panicked"]
    /\ UNCHANGED <<bootVars, storeVars, published, req, rsv, pub, brk, inflight, st, wr, resp, workerVars>>

\* set_status: pool.get() or the pipeline fails before SET runs; the error is
\* dropped (let _ =) and the response is returned
SetStatusErr(r) ==
    /\ pc[r] = "set_status"
    /\ wr' = [wr EXCEPT ![r] = "err"]
    /\ resp' = [resp EXCEPT ![r] = PublishResponse(pub[r] = "ok", req[r].request_id)]
    /\ pc' = [pc EXCEPT ![r] = "done"]
    /\ UNCHANGED <<bootVars, storeVars, published, req, rsv, loc, pub, brk, inflight, st, workerVars>>

\* set_status: the pipeline's SET runs
SetStatusSet(r) ==
    /\ pc[r] = "set_status"
    /\ kv' = Put(kv, StatusKey(req[r].request_id),
                 SetCmd(status, req[r].request_id, st[r])[req[r].request_id])
    /\ lastSet' = [lastSet EXCEPT ![req[r].request_id] =
                      [by |-> r, state |-> st[r], over |-> status[req[r].request_id].val]]
    /\ pc' = [pc EXCEPT ![r] = "expire"]
    /\ UNCHANGED <<bootVars, now, age, published, req, rsv, loc, pub, brk, inflight, st, wr, resp, workerVars>>

\* set_status: the pipeline's EXPIRE runs (or is lost: ok = FALSE), then the
\* response is returned
SetStatusExpire(r) ==
    /\ pc[r] = "expire"
    /\ \E ok \in BOOLEAN :
         /\ kv' = IF ok
                  THEN Put(kv, StatusKey(req[r].request_id),
                           ExpireCmd(status, req[r].request_id, StatusTtl, now)[req[r].request_id])
                  ELSE kv
         /\ wr' = [wr EXCEPT ![r] = IF ok THEN "ok" ELSE "err"]
    /\ resp' = [resp EXCEPT ![r] = PublishResponse(pub[r] = "ok", req[r].request_id)]
    /\ pc' = [pc EXCEPT ![r] = "done"]
    /\ UNCHANGED <<bootVars, now, lastSet, age, published, req, rsv, loc, pub, brk, inflight, st, workerVars>>

\* ------------------------------------------------------------------------
\* handlers.rs: update_status_email / update_status_push -> update_status_impl
\* ------------------------------------------------------------------------
\* A worker consumes a message from its queue, attempts the delivery and
\* reports the terminal outcome for the message's request_id.
WorkerStates == {"delivered", "failed"}

NoWReq == [notification_id |-> "none", status |-> "none"]

\* match req.status { Delivered => "delivered", Pending => "pending", Failed => "failed" }
StateStr(s) == s

\* set_status fails before SET runs: 500 status_update_failed
CallbackErr(w) ==
    /\ Serving
    /\ wpc[w] = "idle"
    /\ \E d \in published :
         /\ Route(d) # {}
         /\ published' = published \ {d}
    /\ UNCHANGED <<bootVars, storeVars, taskVars, workerVars>>

\* set_status: the pipeline's SET runs
CallbackSet(w) ==
    /\ Serving
    /\ wpc[w] = "idle"
    /\ \E d \in published, s \in WorkerStates :
         LET id == d.payload.request_id
         IN  /\ Route(d) # {}
             /\ published' = published \ {d}
             /\ wreq' = [wreq EXCEPT ![w] = [notification_id |-> id, status |-> s]]
             /\ kv' = Put(kv, StatusKey(id), SetCmd(status, id, StateStr(s))[id])
             /\ lastSet' = [lastSet EXCEPT ![id] =
                               [by |-> w, state |-> StateStr(s), over |-> status[id].val]]
    /\ wpc' = [wpc EXCEPT ![w] = "expire"]
    /\ UNCHANGED <<bootVars, now, age, taskVars>>

\* set_status: the pipeline's EXPIRE runs (or is lost), then 200 status_updated / 500
CallbackExpire(w) ==
    /\ wpc[w] = "expire"
    /\ \E ok \in BOOLEAN :
         kv' = IF ok
               THEN Put(kv, StatusKey(wreq[w].notification_id),
                        ExpireCmd(status, wreq[w].notification_id, StatusTtl, now)
                            [wreq[w].notification_id])
               ELSE kv
    /\ wreq' = [wreq EXCEPT ![w] = NoWReq]
    /\ wpc' = [wpc EXCEPT ![w] = "idle"]
    /\ UNCHANGED <<bootVars, now, lastSet, age, published, taskVars>>

\* ------------------------------------------------------------------------
\* The specification
\* ------------------------------------------------------------------------
Init ==
    /\ bootpc = "connecting"
    /\ connRes = "none"
    /\ channel = FALSE
    /\ delay = InitialDelay
    /\ elapsed = 0
    /\ retries = 0
    /\ slept = 0
    /\ declared = 0
    /\ amqp_ready = FALSE
    /\ readyStores = 0
    /\ exchange_name \in ExchangeNames
    /\ now = 0
    /\ kv = [k \in Keys |-> NoRecord]
    /\ lastSet = [i \in Ids |-> NoSet]
    /\ age = [i \in Ids |-> IdemTtl]
    /\ published = {}
    /\ pc = [r \in Tasks |-> "idle"]
    /\ req = [r \in Tasks |-> NoReq]
    /\ rsv = [r \in Tasks |-> NoRsv]
    /\ loc = [r \in Tasks |-> NoLoc]
    /\ pub = [r \in Tasks |-> "none"]
    /\ brk = [r \in Tasks |-> "none"]
    /\ inflight = [r \in Tasks |-> {}]
    /\ st = [r \in Tasks |-> "none"]
    /\ wr = [r \in Tasks |-> "none"]
    /\ resp = [r \in Tasks |-> NoResp]
    /\ wpc = [w \in Workers |-> "idle"]
    /\ wreq = [w \in Workers |-> NoWReq]

Next ==
    \/ ConnectAttempt
    \/ ConnectOk
    \/ ConnectRetry
    \/ ConnectGiveUp
    \/ CreateChannelOk
    \/ CreateChannelFail
    \/ DeclareStepOk
    \/ DeclareStepFail
    \/ MarkReady
    \/ StartServerOk
    \/ StartServerFail
    \/ Tick
    \/ \E r \in Tasks :
         \/ Reserve(r)
         \/ FetchUserOk(r)
         \/ FetchUserFail(r)
         \/ FetchTemplateOk(r)
         \/ FetchTemplateFail(r)
         \/ PublishSend(r)
         \/ Publish(r)
         \/ SetStatusErr(r)
         \/ SetStatusSet(r)
         \/ SetStatusExpire(r)
    \/ \E w \in Workers :
         \/ CallbackErr(w)
         \/ CallbackSet(w)
         \/ CallbackExpire(w)

Spec == Init /\ [][Next]_vars

\* The program with a composer whose message may fail to serialize.
SerNext == Next \/ \E r \in Tasks : SerializePanic(r)
SerSpec == Init /\ [][SerNext]_vars

\* connect_with_retry alone, each of its steps taken when it can be: the
\* runtime keeps polling main, and every connection attempt returns.
ConnectNext == ConnectAttempt \/ ConnectOk \/ ConnectRetry \/ ConnectGiveUp
ConnectSpec ==
    /\ Init
    /\ [][ConnectNext]_vars
    /\ WF_vars(ConnectAttempt)
    /\ WF_vars(ConnectOk)
    /\ WF_vars(ConnectRetry)
    /\ WF_vars(ConnectGiveUp)

\* ------------------------------------------------------------------------
\* Properties
\* ------------------------------------------------------------------------
Rid(r) == req[r].request_id
SameRid(a, b) == a # b /\ Rid(a) = Rid(b) /\ Rid(a) # "none"
\* The task whose publish handed over delivery d (the message_id is its own).
Publisher(d) == d.message_id[1]
\* A reserve call that reached the store, in a TTL window that is still open.
InWindow(r) == rsv[r].store = "ok" /\ rsv[r].cur

\* C1: among the reserve_idem calls for one request_id that reach the store
\* within one TTL window, exactly one observes Reserved and every other one
\* observes Duplicate.
C1_ExactlyOneReserved ==
    \A a \in Tasks :
        InWindow(a) =>
            /\ rsv[a].result \in {"Reserved", "Duplicate"}
            /\ \E b \in Tasks :
                 Rid(b) = Rid(a) /\ InWindow(b) /\ rsv[b].result = "Reserved"
            /\ \A b \in Tasks :
                 (SameRid(a, b) /\ InWindow(b) /\ rsv[a].result = "Reserved")
                     => rsv[b].result = "Duplicate"

\* Two concurrent requests raced on one request_id: one Reserved, one Duplicate.
C1_Witness ==
    \E a, b \in Tasks :
        /\ SameRid(a, b) /\ InWindow(a) /\ InWindow(b)
        /\ rsv[a].result = "Reserved" /\ rsv[b].result = "Duplicate"
        /\ pc[a] # "done"

\* C2: a request whose reserve returned Duplicate is answered 202 with
\* notification_id = request_id and message duplicate_request, publishes
\* nothing and writes no status; so two requests of one request_id that both
\* reached the publish each hold a reservation of their own, from different
\* TTL windows.
C2_DuplicateNoPublish ==
    /\ \A r \in Tasks :
         rsv[r].result = "Duplicate" =>
             /\ pc[r] = "done"
             /\ resp[r].code = 202 /\ resp[r].success
             /\ resp[r].message = "duplicate_request"
             /\ resp[r].notification_id = Rid(r)
             /\ pub[r] = "none" /\ st[r] = "none" /\ wr[r] = "none"
             /\ \A i \in Ids : lastSet[i].by # r
             /\ \A d \in published : Publisher(d) # r
    /\ \A a, b \in Tasks :
         (SameRid(a, b) /\ pub[a] # "none" /\ pub[b] # "none") =>
             /\ rsv[a].result = "Reserved" /\ rsv[b].result = "Reserved"
             /\ ~(rsv[a].cur /\ rsv[b].cur)
    /\ \A d \in published : pub[Publisher(d)] = "ok" /\ d.payload.request_id = Rid(Publisher(d))

\* The first request was published, the identical second one was a duplicate.
C2_Witness ==
    \E a, b \in Tasks :
        /\ SameRid(a, b)
        /\ pub[a] = "ok" /\ rsv[b].result = "Duplicate" /\ rsv[b].store = "ok"
        /\ resp[b].code = 202

\* C3: a request that reached the publish and was answered: a successful
\* publish was followed by set_status(pending) and 202, a failed publish by
\* set_status(failed) and 502; 202 queued and 502 queue_publish_failed are
\* returned for no other publish outcome.
C3_PublishDecidesStatusAndResponse ==
    \A r \in Tasks :
        /\ (pub[r] = "ok") => st[r] = "pending"
        /\ (pub[r] = "err") => st[r] = "failed"
        /\ (pc[r] = "done" /\ pub[r] = "ok") =>
               wr[r] # "none" /\ resp[r].code = 202 /\ resp[r].message = "queued"
        /\ (pc[r] = "done" /\ pub[r] = "err") =>
               wr[r] # "none" /\ resp[r].code = 502
        /\ (pc[r] = "done" /\ resp[r].message = "queued") => pub[r] = "ok"
        /\ (pc[r] = "done" /\ resp[r].error = "queue_publish_failed") => pub[r] = "err"
        /\ \A i \in Ids :
               lastSet[i].by = r =>
                   lastSet[i].state = (IF pub[r] = "ok" THEN "pending" ELSE "failed")

\* One request answered 202 after a publish, another 502 after a failed one.
C3_Witness ==
    \E a, b \in Tasks :
        /\ pc[a] = "done" /\ pub[a] = "ok" /\ wr[a] = "ok" /\ resp[a].code = 202
        /\ pc[b] = "done" /\ pub[b] = "err" /\ wr[b] = "ok" /\ resp[b].code = 502

\* C4: when the publish failed, the step that returns the response comes after
\* the set_status(failed) attempt, the response is 502 queue_publish_failed,
\* and if that set_status succeeded and no other writer has written the key
\* since, the status record is failed (and held) as the response is returned.
C4_PublishFailureWritesFailed ==
    [][ \A r \in Tasks :
          (pc[r] # "done" /\ pc'[r] = "done" /\ pub[r] = "err") =>
              /\ st[r] = "failed"
              /\ wr'[r] \in {"ok", "err"}
              /\ resp'[r].code = 502 /\ ~resp'[r].success
              /\ resp'[r].error = "queue_publish_failed"
              /\ (wr'[r] = "ok" /\ lastSet'[Rid(r)].by = r) =>
                    /\ status'[Rid(r)].val = "failed"
                    /\ status'[Rid(r)].exp > now'
      ]_vars

\* A request answered 502 whose failed record stands.
C4_Witness ==
    \E r \in Tasks :
        /\ pc[r] = "done" /\ pub[r] = "err" /\ wr[r] = "ok"
        /\ resp[r].error = "queue_publish_failed"
        /\ lastSet[Rid(r)].by = r /\ status[Rid(r)].val = "failed"

\* C5 (as claimed): a reserve during which the store could not be reached or
\* failed the command returns an error, and the request is answered 500
\* without publishing, never 202 duplicate.
C5_BackendFailureIsError ==
    \A r \in Tasks :
        rsv[r].store \in {"pool_err", "cmd_err"} =>
            /\ rsv[r].result = "Err"
            /\ resp[r].code = 500
            /\ pub[r] = "none"

\* C6: a reserve that reaches the store returns Reserved exactly when the
\* request_id was never reserved or its last reservation is at least IdemTtl
\* old, and Duplicate exactly when a reservation younger than IdemTtl exists.
C6_ReservableAgainAfterTtl ==
    [][ \A r \in Tasks :
          (pc[r] = "idle" /\ pc'[r] # "idle" /\ rsv'[r].store = "ok") =>
              /\ rsv'[r].result \in {"Reserved", "Duplicate"}
              /\ (rsv'[r].result = "Reserved") <=> (age[Rid(r)'] >= IdemTtl)
      ]_vars

\* One request_id reserved twice, the second time after the TTL, and both
\* messages published.
C6_Witness ==
    \E a, b \in Tasks :
        /\ SameRid(a, b)
        /\ rsv[a].result = "Reserved" /\ rsv[b].result = "Reserved"
        /\ pub[a] = "ok" /\ pub[b] = "ok"

\* C7: a connection attempt that fails at or after the retry deadline ends
\* startup: main panics, and from then on the readiness flag is false, no
\* channel exists, the server is not serving and no request is handled.
C7_GiveUpNeverServes ==
    /\ [][ (bootpc = "connect_result" /\ connRes = "err" /\ elapsed >= ConnectMaxSecs)
               => bootpc' = "connect_panic" ]_vars
    /\ [][ bootpc = "connect_panic" => bootpc' = "connect_panic" ]_vars
    /\ [](bootpc = "connect_panic" =>
              /\ ~amqp_ready /\ readyStores = 0 /\ ~channel /\ ~Serving
              /\ \A r \in Tasks : pc[r] = "idle"
              /\ \A w \in Workers : wpc[w] = "idle"
              /\ published = {})

\* The broker stayed unreachable past the deadline.
C7_Witness == bootpc = "connect_panic" /\ connRes = "err" /\ elapsed >= ConnectMaxSecs

\* C8: amqp_ready starts false, is stored true at most once, is true only
\* when the connection, the channel and all DeclSteps declarations succeeded,
\* and never goes from true to false.
C8_ReadyOnceAfterTopology ==
    /\ ~amqp_ready
    /\ [](/\ readyStores <= 1
          /\ amqp_ready <=> (readyStores = 1)
          /\ amqp_ready => (connRes = "ok" /\ channel /\ declared = DeclSteps)
          /\ Serving => amqp_ready)
    /\ [][ amqp_ready => amqp_ready' ]_vars

\* The flag was set and the server is serving (GET /ready answers 200).
C8_Witness == amqp_ready /\ Serving /\ ReadyResponse = 200

\* C9 (as claimed): a set_status whose SET has run leaves a record that
\* get_status returns with the state of that call and an updated_at equal to
\* the time of that write.
C9_LastWriteWinsWithTimestamp ==
    [][ \A i \in Ids :
          (lastSet'[i] # lastSet[i] /\ lastSet'[i] # NoSet) =>
              /\ GetStatus(i)'.found
              /\ GetStatus(i)'.state = lastSet'[i].state
              /\ GetStatus(i)'.updated_at = now
      ]_vars

\* The fields of a composed message other than correlation_id and created_at.
Strip(m) == [f \in (DOMAIN m) \ {"correlation_id", "created_at"} |-> m[f]]
\* The fields other than those and the fetched user and template.
StripFetched(m) ==
    [f \in (DOMAIN m) \ {"correlation_id", "created_at", "user", "template"} |-> m[f]]

\* What every composed message satisfies: attempt 0, max_attempts 3, the
\* request's request_id, and the routing key of its notification_type.
ComposedRight(d) ==
    LET m == d.payload
        rq == req[Publisher(d)]
    IN  /\ m.attempt = 0
        /\ m.max_attempts = 3
        /\ m.request_id = rq.request_id
        /\ (rq.notification_type = "Email") => d.routing_key = "email"
        /\ (rq.notification_type = "Push") => d.routing_key = "push"
        /\ d.routing_key \in {"email", "push"}
        /\ m.notification_type = d.routing_key

C11_PublishedToDeclaredExchange ==
    \A d \in published :
        /\ d.exchange = exchange_name
        /\ d.exchange \in DeclaredExchanges
        /\ (d.routing_key = "email") => Route(d) = {"email.queue"}
        /\ (d.routing_key = "push") => Route(d) = {"push.queue"}
        /\ "failed.queue" \notin Route(d)

\* C12 (as claimed): a publish that the broker reported back (returned as
\* unroutable or negatively acknowledged) is a publish failure: the status
\* written is failed and the response is 502, never 202 with pending.
C12_RejectedPublishIsFailure ==
    \A r \in Tasks :
        brk[r] = "rejected" =>
            /\ pub[r] = "err"
            /\ st[r] = "failed"
            /\ (pc[r] = "done") => resp[r].code = 502

\* The order of main's positions: connecting, then the channel and the
\* declarations, then ready and serving; every failure is an end.
StartupOrder ==
    {<<"connecting", "connect_result">>, <<"connect_result", "connecting">>,
     <<"connect_result", "create_channel">>, <<"connect_result", "connect_panic">>,
     <<"create_channel", "declaring">>, <<"create_channel", "failed">>,
     <<"declaring", "starting">>, <<"declaring", "failed">>,
     <<"starting", "serving">>, <<"starting", "failed">>, <<"starting", "panicked">>}

\* C13: main moves only along connecting -> declaring -> ready; whenever the
\* server serves, and whenever any handler has run, the connection is
\* established, the channel exists, every declaration step succeeded and
\* the flag is set; a startup that failed stays failed, has served nothing.
C13_ServesOnlyWhenReady ==
    /\ [][ bootpc' # bootpc => <<bootpc, bootpc'>> \in StartupOrder ]_vars
    /\ []((Serving \/ (\E r \in Tasks : pc[r] # "idle") \/ (\E w \in Workers : wpc[w] # "idle")
             \/ published # {}) =>
              /\ Serving /\ connRes = "ok" /\ channel /\ declared = DeclSteps /\ amqp_ready
              /\ DeclaredExchanges = {exchange_name}
              /\ {b.queue : b \in DeclaredBindings} = {"email.queue", "push.queue"})
    /\ [][ (bootpc \in {"failed", "panicked", "connect_panic"}) => (bootpc' = bootpc) ]_vars
    /\ [](bootpc \in {"failed", "panicked"} =>
              /\ ~Serving
              /\ \A r \in Tasks : pc[r] = "idle" /\ resp[r] = NoResp
              /\ \A w \in Workers : wpc[w] = "idle"
              /\ published = {})

\* A declaration step failed after the channel was created and some
\* declarations had succeeded.
C13_Witness == bootpc = "failed" /\ channel /\ declared >= 1 /\ declared < DeclSteps /\ ~amqp_ready

\* C14: the sleep before the k-th retry lasts min(2^(k-1), 10): 1, 2, 4, 8,
\* then 10; it is never 0, never above 10 and never shorter than the one
\* before; delay holds the length of the next sleep.
C14_BackoffDelays ==
    /\ [][ retries' = retries + 1 =>
              /\ slept' = Min(2 ^ (retries' - 1), 10)
              /\ slept' >= 1 /\ slept' <= 10
              /\ slept' >= slept
              /\ (retries' <= 4) => slept' = <<1, 2, 4, 8>>[retries']
              /\ (retries' > 4) => slept' = 10 ]_vars
    /\ [](bootpc \in {"connecting", "connect_result"} =>
              delay = Min(2 ^ retries, 10) /\ delay >= 1 /\ delay <= 10)

\* The sixth retry: the delay stayed at the cap.
C14_Witness == bootpc = "connecting" /\ retries = 6 /\ slept = 10 /\ delay = 10

\* C15: connect_with_retry ends, with a connection or by giving up; it
\* retries only on a failure seen before the deadline, each retry brings
\* the deadline nearer, and a failure seen at or after the deadline gives up.
C15_ConnectTerminates ==
    /\ <>(bootpc \in {"create_channel", "connect_panic"})
    /\ [][ retries' = retries + 1 =>
              /\ bootpc = "connect_result" /\ connRes = "err"
              /\ elapsed < ConnectMaxSecs
              /\ elapsed' > elapsed ]_vars
    /\ [][ (bootpc = "connect_result" /\ connRes = "err" /\ elapsed >= ConnectMaxSecs)
              => (bootpc' = "connect_panic" /\ retries' = retries) ]_vars
    /\ [][ (bootpc = "connect_result" /\ connRes = "ok") => bootpc' = "create_channel" ]_vars

\* Every attempt failed: it gave up after retrying up to the deadline.
C15_Witness == bootpc = "connect_panic" /\ retries >= 6 /\ slept = BackoffCap

\* C16 (as claimed): no reachable state holds a status key with a state but
\* without the refreshed expiry, in particular none without any expiry.
C16_SetStatusAtomic ==
    \A i \in Ids :
        status[i] # NoRecord => (status[i].exp # NoExpiry /\ status[i].exp > now)

\* C17 (as claimed): no request task ends in a panic; a serialization
\* failure is answered with a 5xx response.
C17_SerializationFailureHandled ==
    \A r \in Tasks :
        /\ pc[r] # "panicked"
        /\ (pc[r] \notin {"idle", "fetch_user", "fetch_template", "publish", "publishing"}
               /\ rsv[r].result = "Reserved" /\ pub[r] = "none")
              => (pc[r] = "done" /\ resp[r].code >= 500 /\ resp[r].code <= 599)

\* C18: the status of an id is the state of the last SET executed on its
\* key, whoever executed it and whatever it overwrote.
C18_LastWriteStands ==
    \A i \in Ids :
        /\ lastSet[i] # NoSet => (status[i] # NoRecord /\ status[i].val = lastSet[i].state)
        /\ lastSet[i] = NoSet => status[i] = NoRecord

\* The worker's delivered landed first, the gateway's pending after it: the
\* request is answered 202 and its status is pending (no other request of
\* that id exists).
C18_Witness ==
    \E r \in Tasks :
        /\ pc[r] = "done" /\ pub[r] = "ok" /\ resp[r].code = 202
        /\ \A b \in Tasks \ {r} : Rid(b) # Rid(r)
        /\ lastSet[Rid(r)] = [by |-> r, state |-> "pending", over |-> "delivered"]
        /\ status[Rid(r)].val = "pending"

\* C19: no idem key is a status key; a reserve_idem leaves every status key
\* (value and expiry) as it was, and the commands of a set_status leave
\* every idem key (reservation and expiry) as it was.
C19_DisjointNamespaces ==
    /\ [](\A a, b \in Ids : IdemKey(a) # StatusKey(b))
    /\ [][ (\E r \in Tasks : pc[r] = "idle" /\ pc'[r] # "idle") =>
              \A b \in Ids : kv'[StatusKey(b)] = kv[StatusKey(b)] ]_vars
    /\ [][ ((\E r \in Tasks : pc[r] \in {"set_status", "expire"} /\ pc'[r] # pc[r])
             \/ (\E w \in Workers : wpc'[w] # wpc[w])) =>
              \A a \in Ids : kv'[IdemKey(a)] = kv[IdemKey(a)] ]_vars

\* The reservation and the status record of one id are both held, with
\* different expiry times.
C19_Witness ==
    \E i \in Ids :
        /\ kv[IdemKey(i)] # NoRecord /\ kv[StatusKey(i)] # NoRecord
        /\ kv[StatusKey(i)].exp # NoExpiry
        /\ kv[StatusKey(i)].exp # kv[IdemKey(i)].exp
        /\ kv[IdemKey(i)].val = "1" /\ kv[StatusKey(i)].val \in States

\* The order of the steps of create_notification; a response ends it.
HandlerOrder ==
    {<<"idle", "fetch_user">>, <<"idle", "done">>,
     <<"fetch_user", "fetch_template">>, <<"fetch_user", "done">>,
     <<"fetch_template", "publish">>, <<"fetch_template", "done">>,
     <<"publish", "publishing">>, <<"publishing", "set_status">>,
     <<"set_status", "expire">>, <<"set_status", "done">>,
     <<"expire", "done">>}

\* C20: a request moves only forward through reserve, lookups, compose and
\* publish, status write, response; it publishes at most once and only
\* after its own reserve returned Reserved, writes the status at most once
\* and only after its publish attempt completed, and is answered exactly
\* once, by the step that ends it.
C20_StepOrder ==
    /\ [][ \A r \in Tasks : pc'[r] # pc[r] => <<pc[r], pc'[r]>> \in HandlerOrder ]_vars
    /\ [][ \A r \in Tasks :
              (pub'[r] # pub[r] \/ \E d \in published' \ published : Publisher(d) = r) =>
                  /\ pub[r] = "none" /\ pc[r] = "publishing" /\ pc'[r] = "set_status"
                  /\ rsv[r].result = "Reserved"
                  /\ \A d \in published : Publisher(d) # r ]_vars
    /\ [][ \A r \in Tasks : \A i \in Ids :
              (lastSet'[i] # lastSet[i] /\ lastSet'[i].by = r) =>
                  /\ i = Rid(r) /\ pub[r] # "none" /\ wr[r] = "none"
                  /\ pc[r] = "set_status" /\ lastSet'[i].state = st[r] ]_vars
    /\ [][ \A r \in Tasks :
              (wr'[r] # wr[r]) => (wr[r] = "none" /\ pub[r] # "none" /\ pc'[r] = "done") ]_vars
    /\ [][ \A r \in Tasks :
              (resp'[r] # resp[r]) => (resp[r] = NoResp /\ pc[r] # "done" /\ pc'[r] = "done") ]_vars
    /\ [](\A r \in Tasks : (pc[r] = "done") <=> (resp[r] # NoResp))

\* A request that went through every step: reserved, published, status
\* written, answered 202 queued.
C20_Witness ==
    \E r \in Tasks :
        /\ pc[r] = "done" /\ rsv[r].result = "Reserved" /\ brk[r] = "ok"
        /\ pub[r] = "ok" /\ st[r] = "pending" /\ wr[r] = "ok"
        /\ resp[r] = EnvelopeOk(202, "queued", Rid(r))

\* C21 (as claimed): no two request tasks have a basic_publish in progress
\* on the same channel handle at the same time.
C21_SingleWriterPublish ==
    \A a, b \in Tasks :
        a # b =>
            \A x \in inflight[a] : \A y \in inflight[b] : x.channel # y.channel

\* C22 (as claimed, allowing the reserving request to be still under way): a
\* request answered 202 in a TTL window that is still open has, in that
\* window, a request of the same request_id that reserved it and either is
\* not finished yet or has published its message successfully.
C22_AcceptedMeansPublished ==
    \A a \in Tasks :
        (pc[a] = "done" /\ resp[a].code = 202 /\ InWindow(a)) =>
            \E b \in Tasks :
                /\ Rid(b) = Rid(a) /\ InWindow(b) /\ rsv[b].result = "Reserved"
                /\ (pc[b] = "done") => (pub[b] = "ok" /\ brk[b] = "ok")

\* C23 (as claimed): the step that answers a request after its publish
\* returns 202 queued when the publish succeeded and 502 when it failed,
\* whatever became of the status write, and retracts no message; when the
\* status write succeeded after a successful publish, get_status finds a
\* record as the response is returned.
C23_StatusWriteBestEffort ==
    [][ \A r \in Tasks :
          (pc[r] # "done" /\ pc'[r] = "done" /\ pub[r] # "none") =>
              /\ wr'[r] \in {"ok", "err"}
              /\ (pub[r] = "ok") => resp'[r] = EnvelopeOk(202, "queued", Rid(r))
              /\ (pub[r] = "err") => (resp'[r].code = 502 /\ ~resp'[r].success)
              /\ published' = published
              /\ (pub[r] = "ok" /\ wr'[r] = "ok") => GetStatus(Rid(r))'.found ]_vars
====
